---- MODULE Spec2Model ----
(***************************************************************************)
(* Healthcare facility processor (src/stage2/healthcare_facility_processor *)
(* .py): the expiry evaluator, the facility filter, the record parser and  *)
(* the run of process_all_files / main, as state machines.                 *)
(*                                                                         *)
(* Dates are proleptic Gregorian ordinals (date.toordinal()), so that      *)
(* "timedelta(days=n)" is "+ n" and date comparison is integer comparison. *)
(* Python/JSON values are tagged records:                                  *)
(*   [t |-> "null"], [t |-> "num", n |-> i], [t |-> "str", s |-> chars],   *)
(*   [t |-> "str", date |-> ordinal]  (a string that spells a date),       *)
(*   [t |-> "list", items |-> seq], [t |-> "dict", d |-> record].          *)
(***************************************************************************)
EXTENDS Integers, Sequences, FiniteSets, TLC

VARIABLES
    clock,                    \* the wall clock's date, as datetime.now().date()
    call,                     \* the last direct call of a method and what it returned
    bucket,                   \* the input objects in S3, in listing order
    pc,                       \* where the run of main() is
    input_files,              \* process_all_files: input_files
    file_index,               \* process_all_files: position of the for loop
    all_filtered_facilities,  \* process_all_files: all_filtered_facilities
    file_log,                 \* per processed file: clock reads and whether it raised
    put_log,                  \* every put_object issued: key, body, outcome
    exit_status               \* the process exit status of main()

vars == <<clock, call, bucket, pc, input_files, file_index,
          all_filtered_facilities, file_log, put_log, exit_status>>

runVars == <<bucket, pc, input_files, file_index, all_filtered_facilities,
             file_log, put_log, exit_status>>

----------------------------------------------------------------------------
(* Bounds of the model *)

\* the date of the first clock read: 2026-11-03 as an ordinal
StartDay == 739923
\* how many midnights may pass while the model runs
MaxTicks == 1
\* the longest list of elements handed to filter_expiring_facilities
MaxFacilities == 2
\* the most lines in an input object's content
MaxLines == 3
\* the most objects under the input prefix
MaxFiles == 2

(* Program constants *)

\* months_threshold=6
DefaultMonths == 6
\* timedelta(days=months_threshold * 30)
DaysPerMonth == 30
\* date.max.toordinal(): 9999-12-31, beyond which date arithmetic raises OverflowError
MaxOrdinal == 3652059
\* date.min.toordinal(): 0001-01-01
MinOrdinal == 1

----------------------------------------------------------------------------
(* Python / JSON values *)

Null == [t |-> "null"]
Num(n) == [t |-> "num", n |-> n]
Str(chars) == [t |-> "str", s |-> chars]
DateStr(d) == [t |-> "str", date |-> d]
List(items) == [t |-> "list", items |-> items]
Dict(d) == [t |-> "dict", d |-> d]

EmptyStr == Str(<<>>)
Junk == Str(<<"j", "u", "n", "k">>)

IsDict(v) == v.t = "dict"

\* dict.get(key, default)
Get(d, key, default) == IF key \in DOMAIN d THEN d[key] ELSE default

\* bool(v): None, 0, '', [] and {} are false
Truthy(v) ==
    CASE v.t = "null" -> FALSE
      [] v.t = "num"  -> v.n # 0
      [] v.t = "str"  -> IF "date" \in DOMAIN v THEN TRUE ELSE v.s # <<>>
      [] v.t = "list" -> v.items # <<>>
      [] v.t = "dict" -> DOMAIN v.d # {}

\* iter(v) raises TypeError for None and numbers
Iterable(v) == v.t \in {"list", "dict", "str"}

SetToSeq(S) ==
    CHOOSE f \in [1..Cardinality(S) -> S] : \A x \in S : \E i \in DOMAIN f : f[i] = x

\* what "for x in v" yields: the items of a list, the keys of a dict, the
\* characters of a string (a date string 'YYYY-MM-DD' has ten)
Iter(v) ==
    CASE v.t = "list" -> v.items
      [] v.t = "dict" -> LET ks == SetToSeq(DOMAIN v.d)
                         IN  [i \in 1..Len(ks) |-> Str(<<ks[i]>>)]
      [] v.t = "str"  -> IF "date" \in DOMAIN v
                         THEN [i \in 1..10 |-> Str(<<"0">>)]
                         ELSE [i \in 1..Len(v.s) |-> Str(<<v.s[i]>>)]

\* len(v) raises TypeError for None and numbers
HasLen(v) == v.t \in {"list", "dict", "str"}

----------------------------------------------------------------------------
(* Expiry evaluator: is_expiring_soon *)

\* dateutil.parser.parse(s) succeeds on a string that spells a date and raises
\* on anything else ('' and free text: ParserError; a non-string: TypeError)
CanParse(v) == v.t = "str" /\ "date" \in DOMAIN v

\* parse(expiry_date_str).date()
ParseDate(v) == v.date

\* datetime.now() + timedelta(days=n) raises OverflowError outside date.min..date.max
Representable(d) == MinOrdinal <= d /\ d <= MaxOrdinal

InWindowStrict(expiry_date, current_date, threshold_date) ==
    current_date <= expiry_date /\ expiry_date < threshold_date

\* current_date <= expiry_date <= threshold_date
InWindow(expiry_date, current_date, threshold_date) ==
    current_date <= expiry_date /\ expiry_date <= threshold_date

\* is_expiring_soon(expiry_date_str, months_threshold), where now1 and now2 are
\* the dates of its two reads of datetime.now(); every exception gives False
IsExpiringSoon(expiry_date_str, months_threshold, now1, now2) ==
    IF ~CanParse(expiry_date_str) THEN FALSE
    ELSE IF ~Representable(now2 + months_threshold * DaysPerMonth) THEN FALSE
    ELSE InWindow(ParseDate(expiry_date_str), now1,
                  now2 + months_threshold * DaysPerMonth)

\* the clock reads an is_expiring_soon call makes: none when parse raises
ExpiryReads(expiry_date_str) == IF CanParse(expiry_date_str) THEN 2 ELSE 0

NoCall == [op |-> "none"]

\* the days, relative to StartDay, that the date strings of the model spell
DayOffsets == {-1, 0, 1, 30, 31, 180, 181, 182, 365}

ExpiryInputs ==
    {DateStr(StartDay + o) : o \in DayOffsets} \cup {EmptyStr, Junk, Null}

MonthInputs == {-100000, -1, 0, 1, DefaultMonths, 100000}

\* a midnight may pass between two clock reads, MaxTicks times in all
Ticks == IF clock < StartDay + MaxTicks THEN {0, 1} ELSE {0}

InitCommon ==
    /\ clock = StartDay
    /\ call = NoCall
    /\ bucket = <<>>
    /\ pc = "idle"
    /\ input_files = <<>>
    /\ file_index = 0
    /\ all_filtered_facilities = <<>>
    /\ file_log = <<>>
    /\ put_log = <<>>
    /\ exit_status = 0

CallIsExpiringSoon ==
    /\ call = NoCall
    /\ \E s \in ExpiryInputs, m \in MonthInputs, tick \in Ticks :
        /\ call' = [op |-> "is_expiring_soon", expiry_date_str |-> s,
                    months_threshold |-> m, now1 |-> clock, now2 |-> clock + tick,
                    ret |-> IsExpiringSoon(s, m, clock, clock + tick)]
        /\ clock' = clock + tick
        /\ UNCHANGED runVars

CallIsExpiringSoonDefault ==
    /\ call = NoCall
    /\ \E s \in ExpiryInputs, tick \in Ticks :
        /\ call' = [op |-> "is_expiring_soon", expiry_date_str |-> s,
                    months_threshold |-> DefaultMonths,
                    now1 |-> clock, now2 |-> clock + tick,
                    ret |-> IsExpiringSoon(s, DefaultMonths, clock, clock + tick)]
        /\ clock' = clock + tick
        /\ UNCHANGED runVars

NextExpiry == CallIsExpiringSoon \/ CallIsExpiringSoonDefault

SpecExpiry == InitCommon /\ [][NextExpiry]_vars

(* C1 *)

IsExpiryCall == call.op = "is_expiring_soon" /\ CanParse(call.expiry_date_str)

\* the window of the claim for a call, with "today" a date the clock showed
\* during the call
WindowAnswer(today) ==
    /\ today <= ParseDate(call.expiry_date_str)
    /\ ParseDate(call.expiry_date_str) <= today + DaysPerMonth * call.months_threshold

\* C1 as stated: for every date d and every threshold m, is_expiring_soon(d, m)
\* is true exactly when today <= d <= today + 30*m days (both ends included),
\* false otherwise; with the default m = 6 the upper end is today + 180 days.
C1_AsStated ==
    IsExpiryCall =>
        \E today \in call.now1..call.now2 :
            /\ call.ret = WindowAnswer(today)
            /\ call.months_threshold = DefaultMonths =>
                   call.ret = (/\ today <= ParseDate(call.expiry_date_str)
                               /\ ParseDate(call.expiry_date_str) <= today + 180)

\* C1 amended: the same, for every threshold m whose threshold date
\* today + 30*m days is no later than 9999-12-31, the last date there is.
C1_WindowExact ==
    (IsExpiryCall /\ call.now2 + DaysPerMonth * call.months_threshold <= MaxOrdinal) =>
        \E today \in call.now1..call.now2 :
            /\ call.ret = WindowAnswer(today)
            /\ call.months_threshold = DefaultMonths =>
                   call.ret = (/\ today <= ParseDate(call.expiry_date_str)
                               /\ ParseDate(call.expiry_date_str) <= today + 180)

\* a default-threshold call on the last day of the window, answered true
C1_Witness ==
    /\ IsExpiryCall
    /\ call.months_threshold = DefaultMonths
    /\ call.now1 = call.now2
    /\ ParseDate(call.expiry_date_str) = call.now1 + 180
    /\ call.ret = TRUE

----------------------------------------------------------------------------
(* Facility filter: filter_expiring_facilities *)

\* the date the r-th clock read of a call shows, when the call starts on day
\* now and midnight passes just before read number k (reads count from 0)
ReadClock(now, k, r) == IF r >= k THEN now + 1 ELSE now

HasExpiringLast(has_expiring_accreditation, result) == result

\* has_expiring_accreditation after one more accreditation: set on a true
\* answer, never cleared
HasExpiring(has_expiring_accreditation, result) ==
    has_expiring_accreditation \/ result

PrependExpiring(expiring_accreditations, accreditation, expiry_date) ==
    <<Dict([body |-> Get(accreditation.d, "accreditation_body", EmptyStr),
            expiry |-> expiry_date])>> \o expiring_accreditations

\* expiring_accreditations.append({'body': ..., 'expiry': expiry_date})
AppendExpiring(expiring_accreditations, accreditation, expiry_date) ==
    Append(expiring_accreditations,
           Dict([body |-> Get(accreditation.d, "accreditation_body", EmptyStr),
                 expiry |-> expiry_date]))

\* the loop over one facility's accreditations, from the j-th on; r counts the
\* clock reads made so far and evals collects what is_expiring_soon answered.
\* An accreditation that is no mapping has no .get: AttributeError.
RECURSIVE EvalAccreditations(_, _, _, _, _, _, _, _)
EvalAccreditations(items, j, now, k, r, has, exp, evals) ==
    IF j > Len(items)
    THEN [raised |-> FALSE, has |-> has, exp |-> exp, evals |-> evals, r |-> r]
    ELSE IF ~IsDict(items[j])
    THEN [raised |-> TRUE, has |-> has, exp |-> exp, evals |-> evals, r |-> r]
    ELSE LET expiry_date == Get(items[j].d, "valid_until", EmptyStr)
             result == IsExpiringSoon(expiry_date, DefaultMonths,
                                      ReadClock(now, k, r), ReadClock(now, k, r + 1))
         IN  EvalAccreditations(items, j + 1, now, k,
                                r + ExpiryReads(expiry_date),
                                HasExpiring(has, result),
                                IF result THEN AppendExpiring(exp, items[j], expiry_date)
                                          ELSE exp,
                                Append(evals, result))

\* facility_copy = facility.copy() with '_processing_metadata' set
FacilityCopy(facility, processed_date, expiring_accreditations, accreditations) ==
    Dict([x \in DOMAIN facility.d \cup {"_processing_metadata"} |->
            IF x = "_processing_metadata"
            THEN Dict([processed_date |-> Num(processed_date),
                       expiring_accreditations |-> List(expiring_accreditations),
                       total_accreditations |-> Num(Len(accreditations))])
            ELSE facility.d[x]])

\* what the body of the for loop does with a mapping facility: "empty" (no
\* accreditations, skipped), "error" (an exception, caught and skipped),
\* "none" (nothing expiring) or "included"
FacilityStep(facility, now, k, r) ==
    LET accreditations == Get(facility.d, "accreditations", List(<<>>)) IN
    IF ~Truthy(accreditations)
    THEN [status |-> "empty", evals |-> <<>>, r |-> r, add |-> <<>>]
    ELSE IF ~Iterable(accreditations)
    THEN [status |-> "error", evals |-> <<>>, r |-> r, add |-> <<>>]
    ELSE LET e == EvalAccreditations(Iter(accreditations), 1, now, k, r,
                                     FALSE, <<>>, <<>>)
         IN  IF e.raised
             THEN [status |-> "error", evals |-> e.evals, r |-> e.r, add |-> <<>>]
             ELSE IF e.has
             THEN [status |-> "included", evals |-> e.evals, r |-> e.r + 1,
                   add |-> <<FacilityCopy(facility, ReadClock(now, k, e.r), e.exp,
                                          Iter(accreditations))>>]
             ELSE [status |-> "none", evals |-> e.evals, r |-> e.r, add |-> <<>>]

\* the for loop over the elements, from the i-th on. An element that is no
\* mapping raises AttributeError at facility.get (line 135); the handler's own
\* facility.get (line 168) raises it again, out of the method. On a raise,
\* out holds what the method's local list held at that moment.
RECURSIVE FilterFrom(_, _, _, _, _, _, _)
FilterFrom(elems, i, now, k, r, out, log) ==
    IF i > Len(elems)
    THEN [raised |-> FALSE, out |-> out, log |-> log, r |-> r]
    ELSE IF ~IsDict(elems[i])
    THEN [raised |-> TRUE, out |-> out,
          log |-> Append(log, [status |-> "raised", evals |-> <<>>]), r |-> r]
    ELSE LET st == FacilityStep(elems[i], now, k, r)
         IN  FilterFrom(elems, i + 1, now, k, st.r, out \o st.add,
                        Append(log, [status |-> st.status, evals |-> st.evals]))

\* filter_expiring_facilities(facilities): iterating None or a number raises
\* TypeError before the loop
FilterExpiringFacilities(facilities, now, k) ==
    IF ~Iterable(facilities)
    THEN [raised |-> TRUE, out |-> <<>>, log |-> <<>>, r |-> 0]
    ELSE FilterFrom(Iter(facilities), 1, now, k, 0, <<>>, <<>>)

\* the clock reads a call makes do not depend on what the clock shows
FilterReads(facilities) == FilterExpiringFacilities(facilities, 0, 0).r

\* midnight passes before read k of a call that makes n reads; k = n: not at all
Crossings(n) == IF clock < StartDay + MaxTicks THEN 0..n ELSE {n}

(* the facilities of the model *)

Soon == DateStr(StartDay + 30)
Far == DateStr(StartDay + 365)
Today == DateStr(StartDay)
Edge == DateStr(StartDay + 181)

Acc(body, valid_until) ==
    Dict([accreditation_body |-> Str(<<body>>), valid_until |-> valid_until])

Facility(id, accreditations) ==
    Dict([facility_id |-> Str(<<id>>), facility_name |-> Str(<<"N", id>>),
          accreditations |-> accreditations])

FacSoon == Facility("1", List(<<Acc("J", Soon)>>))
FacFar == Facility("2", List(<<Acc("N", Far)>>))
FacMixed ==
    Facility("3", List(<<Acc("A", Edge), Acc("C", Soon),
                         Dict([valid_until |-> Today]), Acc("B", Far)>>))
FacEmpty == Facility("4", List(<<>>))
FacNoAccreditations == Dict([facility_id |-> Str(<<"5">>)])
FacNoId == Dict([accreditations |-> List(<<Acc("J", Soon)>>)])
FacBadAccreditation == Facility("7", List(<<Acc("J", Soon), Junk>>))
FacNumAccreditations == Facility("8", Num(5))
FacBadDates ==
    Facility("9", List(<<Dict([accreditation_body |-> Str(<<"J">>)]),
                         Acc("G", Junk), Acc("Z", Null)>>))

Elements ==
    {FacSoon, FacFar, FacMixed, FacEmpty, FacNoAccreditations, FacNoId,
     FacBadAccreditation, FacNumAccreditations, FacBadDates, Junk, Null}

SeqsUpTo(S, n) == UNION {[1..m -> S] : m \in 0..n}

CallFilter ==
    /\ call = NoCall
    /\ \E elems \in SeqsUpTo(Elements, MaxFacilities) :
        \E k \in Crossings(FilterReads(List(elems))) :
            /\ call' = [op |-> "filter_expiring_facilities", facilities |-> List(elems),
                        now |-> clock, k |-> k,
                        ret |-> FilterExpiringFacilities(List(elems), clock, k)]
            /\ clock' = IF k < FilterReads(List(elems)) THEN clock + 1 ELSE clock
            /\ UNCHANGED runVars

NextFilter == CallFilter

SpecFilter == InitCommon /\ [][NextFilter]_vars

(* C2, C3, C5 *)

IsFilterCall == call.op = "filter_expiring_facilities" /\ call.facilities.t = "list"

\* a FacilityRecord of the data model: a mapping whose accreditations, when
\* present, are a sequence of mappings
IsFacilityRecord(f) ==
    /\ IsDict(f)
    /\ "accreditations" \in DOMAIN f.d =>
           /\ f.d.accreditations.t = "list"
           /\ \A j \in DOMAIN f.d.accreditations.items :
                  IsDict(f.d.accreditations.items[j])

\* a filtered facility without the metadata the filter added
Original(o) == [x \in DOMAIN o.d \ {"_processing_metadata"} |-> o.d[x]]

InOutput(f) == \E n \in DOMAIN call.ret.out : Original(call.ret.out[n]) = f.d

\* is_expiring_soon answered true for an accreditation of the i-th facility
Qualifies(i) == \E j \in DOMAIN call.ret.log[i].evals : call.ret.log[i].evals[j]

\* C2: for every input sequence of facility records, the call returns, and it
\* returns a facility if and only if is_expiring_soon is true for the
\* valid_until of at least one of its accreditations; a facility with empty
\* or missing accreditations, or with all accreditations outside the window,
\* is never returned.
C2_ReturnedIffQualifies ==
    IsFilterCall =>
        /\ (\A i \in DOMAIN call.facilities.items :
                IsFacilityRecord(call.facilities.items[i])) => ~call.ret.raised
        /\ ~call.ret.raised =>
               \A i \in DOMAIN call.facilities.items :
                   LET f == call.facilities.items[i] IN
                   IsFacilityRecord(f) =>
                       /\ Len(call.ret.log[i].evals) =
                              Len(Get(f.d, "accreditations", List(<<>>)).items)
                       /\ InOutput(f) <=> Qualifies(i)

\* a returned call that kept one facility record and dropped another whose
\* accreditations were all evaluated
C2_Witness ==
    /\ IsFilterCall /\ ~call.ret.raised
    /\ call.facilities.items = <<FacFar, FacMixed>>
    /\ Len(call.ret.out) = 1
    /\ InOutput(FacMixed) /\ ~InOutput(FacFar)

Indices(n) == [i \in 1..n |-> i]

\* the input position of the n-th facility of the output
IncludedIndex(n) ==
    SelectSeq(Indices(Len(call.ret.log)),
              LAMBDA i : call.ret.log[i].status = "included")[n]

\* the {body, expiry} entries of the accreditations answered true, in order
ExpectedExpiring(accreditations, evals) ==
    LET js == SelectSeq(Indices(Len(accreditations)), LAMBDA j : evals[j])
    IN  [m \in 1..Len(js) |->
            Dict([body |-> Get(accreditations[js[m]].d, "accreditation_body", EmptyStr),
                  expiry |-> Get(accreditations[js[m]].d, "valid_until", EmptyStr)])]

\* C3: for every facility in the output, _processing_metadata's
\* expiring_accreditations holds exactly the accreditations for which
\* is_expiring_soon was true, in their original order, and
\* total_accreditations is the length of the original accreditations.
C3_MetadataExact ==
    (IsFilterCall /\ ~call.ret.raised) =>
        \A n \in DOMAIN call.ret.out :
            LET i == IncludedIndex(n)
                accreditations == call.facilities.items[i].d.accreditations.items
                meta == call.ret.out[n].d["_processing_metadata"].d
            IN  /\ Original(call.ret.out[n]) = call.facilities.items[i].d
                /\ Len(call.ret.log[i].evals) = Len(accreditations)
                /\ meta.expiring_accreditations =
                       List(ExpectedExpiring(accreditations, call.ret.log[i].evals))
                /\ meta.total_accreditations = Num(Len(accreditations))

\* an output facility with several, but not all, of its accreditations expiring
C3_Witness ==
    /\ IsFilterCall /\ ~call.ret.raised
    /\ \E n \in DOMAIN call.ret.out :
           LET meta == call.ret.out[n].d["_processing_metadata"].d IN
           /\ Len(meta.expiring_accreditations.items) >= 2
           /\ meta.total_accreditations.n > Len(meta.expiring_accreditations.items)

\* C5: a failure while evaluating one element of the input sequence, also an
\* element that is no mapping, is caught and that element alone skipped: the
\* call does not raise and every element of the sequence is gone through.
C5_AsStated ==
    IsFilterCall =>
        /\ ~call.ret.raised
        /\ Len(call.ret.log) = Len(call.facilities.items)

----------------------------------------------------------------------------
(* Record parser: read_json_from_s3 *)

(* The content of an object is its sequence of lines (content.split('\n')).  *)
(* A line is [k |-> "value", v |-> a value]: one complete JSON text,         *)
(* [k |-> "bad"]: text that is no JSON, or [k |-> "blank"]: only whitespace. *)
(* An object that does not exist is NoObject.                                *)

ValueLine(v) == [k |-> "value", v |-> v]
BadLine == [k |-> "bad"]
BlankLine == [k |-> "blank"]
NoObject == [exists |-> FALSE]
Object(lines) == [exists |-> TRUE, lines |-> lines]

\* line.strip() is non-empty
NonBlank(line) == line.k # "blank"

\* json.loads(text) of the given lines joined: whitespace around one JSON
\* text is allowed, anything else is a JSONDecodeError ("Expecting value" on
\* empty or bad text, "Extra data" on a second text)
JsonLoads(lines) ==
    LET texts == SelectSeq(lines, NonBlank) IN
    IF Len(texts) = 1 /\ texts[1].k = "value"
    THEN [ok |-> TRUE, v |-> texts[1].v]
    ELSE [ok |-> FALSE]

\* the fallback loop: json.loads on every non-blank line, bad lines skipped
RECURSIVE ParseLines(_, _, _)
ParseLines(lines, n, facilities) ==
    IF n > Len(lines) THEN facilities
    ELSE IF NonBlank(lines[n]) /\ JsonLoads(<<lines[n]>>).ok
    THEN ParseLines(lines, n + 1, Append(facilities, JsonLoads(<<lines[n]>>).v))
    ELSE ParseLines(lines, n + 1, facilities)

\* the try of lines 73-87: the whole content first, the lines on a
\* JSONDecodeError. len(facilities) in the log line raises TypeError when the
\* whole content is a number or null.
Parsed(lines) ==
    IF JsonLoads(lines).ok
    THEN JsonLoads(lines).v
    ELSE List(ParseLines(lines, 1, <<>>))

\* read_json_from_s3(file_key): get_object raises ClientError on a missing
\* object; every exception is logged and raised again
ReadJsonFromS3(object) ==
    IF ~object.exists THEN [raised |-> TRUE, exc |-> "ClientError"]
    ELSE IF JsonLoads(object.lines).ok /\ ~HasLen(JsonLoads(object.lines).v)
    THEN [raised |-> TRUE, exc |-> "TypeError"]
    ELSE [raised |-> FALSE, facilities |-> Parsed(object.lines)]

Lines ==
    {ValueLine(FacSoon), ValueLine(FacFar), ValueLine(List(<<FacSoon, FacFar>>)),
     ValueLine(List(<<>>)), ValueLine(Null), ValueLine(Junk), BadLine, BlankLine}

CallReadJson ==
    /\ call = NoCall
    /\ \E lines \in SeqsUpTo(Lines, MaxLines) :
        /\ call' = [op |-> "read_json_from_s3", object |-> Object(lines),
                    ret |-> ReadJsonFromS3(Object(lines))]
        /\ UNCHANGED <<clock, runVars>>

CallReadJsonMissing ==
    /\ call = NoCall
    /\ call' = [op |-> "read_json_from_s3", object |-> NoObject,
                ret |-> ReadJsonFromS3(NoObject)]
    /\ UNCHANGED <<clock, runVars>>

NextRead == CallReadJson \/ CallReadJsonMissing

SpecRead == InitCommon /\ [][NextRead]_vars

(* C4 *)

\* the content is N facility records, one per line, and nothing else
IsJsonLines(lines) ==
    \A n \in DOMAIN lines : lines[n].k = "value" /\ IsDict(lines[n].v)

\* C4: for every N, N = 1 included, read_json_from_s3 of N well-formed JSON
\* facility records, one per line, returns the sequence of exactly those N
\* records in order.
C4_AsStated ==
    (/\ call.op = "read_json_from_s3"
     /\ call.object.exists
     /\ IsJsonLines(call.object.lines)) =>
        /\ ~call.ret.raised
        /\ call.ret.facilities =
               List([n \in DOMAIN call.object.lines |-> call.object.lines[n].v])

----------------------------------------------------------------------------
(* The run: main, process_all_files, list_input_files, write_json_to_s3 *)

(* bucket[i] is the i-th entry of the listing under the input prefix: whether *)
(* its key ends in ".json", and the object get_object finds for it. A key is  *)
(* the entry's position.                                                      *)

Entry(json, object) == [json |-> json, object |-> object]

Files ==
    {Entry(TRUE, Object(<<ValueLine(List(<<FacSoon, FacFar>>))>>)),
     Entry(TRUE, Object(<<ValueLine(List(<<FacFar, FacEmpty>>))>>)),
     Entry(TRUE, Object(<<ValueLine(FacSoon)>>)),
     Entry(TRUE, Object(<<ValueLine(FacFar), BadLine, ValueLine(FacNoId)>>)),
     Entry(TRUE, NoObject),
     Entry(TRUE, Object(<<ValueLine(Null)>>)),
     Entry(TRUE, Object(<<ValueLine(List(<<FacSoon, Junk, FacMixed>>))>>)),
     Entry(FALSE, Object(<<ValueLine(List(<<FacSoon>>))>>))}

\* list_input_files: the keys that end in '.json', in listing order
JsonKeys == SelectSeq(Indices(Len(bucket)), LAMBDA i : bucket[i].json)

\* the body of the try of the for loop for one file: read, then filter. On a
\* raise, filtered holds what filter_expiring_facilities had collected so far,
\* which the caller never sees.
ProcessOne(object, now, k) ==
    LET rd == ReadJsonFromS3(object) IN
    IF rd.raised THEN [raised |-> TRUE, filtered |-> <<>>]
    ELSE LET fl == FilterExpiringFacilities(rd.facilities, now, k)
         IN  [raised |-> fl.raised, filtered |-> fl.out]

\* the clock reads of one file's processing
FileReads(object) ==
    IF ReadJsonFromS3(object).raised THEN 0
    ELSE FilterReads(ReadJsonFromS3(object).facilities)

ExtendAlways(aggregate, res) == aggregate \o res.filtered

\* all_filtered_facilities.extend(filtered), reached only when nothing raised
ExtendAggregate(aggregate, res) ==
    IF res.raised THEN aggregate ELSE aggregate \o res.filtered

AfterFileRaise(raised, last) ==
    IF raised THEN "failed" ELSE IF last THEN "write" ELSE "loop"

\* where the run goes after a file: "except Exception: ... continue", so on to
\* the next file, or to the output when it was the last
AfterFile(raised, last) == IF last THEN "write" ELSE "loop"

\* 'no_expiring_facilities' payload element
EmptyResult(now) ==
    Dict([message |-> Str(<<"No facilities with expiring accreditations found">>),
          processing_date |-> Num(now),
          facilities |-> List(<<>>)])

\* what process_all_files hands to write_json_to_s3
OutputData == 
    IF all_filtered_facilities # <<>>
    THEN all_filtered_facilities
    ELSE <<EmptyResult(clock)>>

OutputName ==
    IF all_filtered_facilities # <<>>
    THEN "expiring_facilities"
    ELSE "no_expiring_facilities"

\* f"{self.output_key}{name}_{timestamp}.json"
Key(name, now) == [prefix |-> "filtered/", name |-> name, ts |-> now]

\* facility['facility_id'] or facility['facility_name'] raises KeyError
SummaryRaises(data) ==
    \E n \in DOMAIN data :
        ~({"facility_id", "facility_name"} \subseteq DOMAIN data[n].d)

ExpiringCount(facility) ==
    Len(Get(Get(facility.d, "_processing_metadata", Dict(<<>>)).d,
            "expiring_accreditations", List(<<>>)).items)

\* the summary of lines 199-212
Summary(data, output_key, now) ==
    Dict([processing_date |-> Num(now),
          total_facilities_processed |-> Num(Len(data)),
          output_location |-> output_key,
          filter_criteria |-> Str(<<"Accreditations expiring within 6 months">>),
          facilities_summary |->
              List([n \in DOMAIN data |->
                      Dict([facility_id |-> data[n].d.facility_id,
                            facility_name |-> data[n].d.facility_name,
                            expiring_count |-> Num(ExpiringCount(data[n]))])])])

AfterPayloadPutIgnoring(ok, data) ==
    IF SummaryRaises(data) THEN "failed" ELSE "summary"

\* write_json_to_s3 after its first put_object: a ClientError is raised again;
\* otherwise the summary is built, which may raise KeyError, also raised again
AfterPayloadPut(ok, data) ==
    IF ~ok THEN "failed"
    ELSE IF SummaryRaises(data) THEN "failed"
    ELSE "summary"

\* write_json_to_s3 after its second put_object
AfterSummaryPut(ok) == IF ok THEN "done" ELSE "failed"

\* main: sys.exit(1) on any exception that reaches it
ExitStatus(next_pc) == IF next_pc = "failed" THEN 1 ELSE 0

InitRun ==
    /\ clock = StartDay
    /\ call = NoCall
    /\ bucket \in SeqsUpTo(Files, MaxFiles)
    /\ pc = "start"
    /\ input_files = <<>>
    /\ file_index = 0
    /\ all_filtered_facilities = <<>>
    /\ file_log = <<>>
    /\ put_log = <<>>
    /\ exit_status = 0

\* HealthcareFacilityProcessor.__init__: head_bucket succeeds or raises
Construct ==
    /\ pc = "start"
    /\ \E ok \in BOOLEAN :
           /\ pc' = IF ok THEN "list" ELSE "failed"
           /\ exit_status' = ExitStatus(pc')
    /\ UNCHANGED <<clock, call, bucket, input_files, file_index,
                   all_filtered_facilities, file_log, put_log>>

\* process_all_files up to the for loop: list_input_files raises, or returns
\* the keys; with no key the method returns at once
ListInputFiles ==
    /\ pc = "list"
    /\ \E ok \in BOOLEAN :
           /\ input_files' = IF ok THEN JsonKeys ELSE <<>>
           /\ pc' = IF ~ok THEN "failed"
                    ELSE IF JsonKeys = <<>> THEN "done" ELSE "loop"
           /\ file_index' = IF ok /\ JsonKeys # <<>> THEN 1 ELSE 0
           /\ exit_status' = ExitStatus(pc')
    /\ UNCHANGED <<clock, call, bucket, all_filtered_facilities, file_log, put_log>>

\* one pass of the for loop of process_all_files
ProcessFile ==
    /\ pc = "loop"
    /\ LET key == input_files[file_index]
           object == bucket[key].object
       IN  \E k \in Crossings(FileReads(object)) :
               LET res == ProcessOne(object, clock, k) IN
               /\ all_filtered_facilities' = ExtendAggregate(all_filtered_facilities, res)
               /\ file_log' = Append(file_log, [key |-> key, now |-> clock, k |-> k,
                                                raised |-> res.raised])
               /\ clock' = IF k < FileReads(object) THEN clock + 1 ELSE clock
               /\ pc' = AfterFile(res.raised, file_index = Len(input_files))
               /\ file_index' = file_index + 1
               /\ exit_status' = ExitStatus(pc')
    /\ UNCHANGED <<call, bucket, input_files, put_log>>

\* write_json_to_s3 up to its second put: the payload is put, then the
\* summary is built
PutPayload ==
    /\ pc = "write"
    /\ \E ok \in BOOLEAN :
           /\ put_log' = Append(put_log, [key |-> Key(OutputName, clock),
                                          body |-> List(OutputData), ok |-> ok])
           /\ pc' = AfterPayloadPut(ok, OutputData)
           /\ exit_status' = ExitStatus(pc')
    /\ UNCHANGED <<clock, call, bucket, input_files, file_index,
                   all_filtered_facilities, file_log>>

\* write_json_to_s3 from its second put on, and the return to main
PutSummary ==
    /\ pc = "summary"
    /\ \E ok \in BOOLEAN :
           /\ put_log' = Append(put_log,
                  [key |-> Key("processing_summary", clock),
                   body |-> Summary(OutputData, put_log[Len(put_log)].key, clock),
                   ok |-> ok])
           /\ pc' = AfterSummaryPut(ok)
           /\ exit_status' = ExitStatus(pc')
    /\ UNCHANGED <<clock, call, bucket, input_files, file_index,
                   all_filtered_facilities, file_log>>

Next == Construct \/ ListInputFiles \/ ProcessFile \/ PutPayload \/ PutSummary

Spec == InitRun /\ [][Next]_vars

(* C6 - C10 *)

Terminated == pc \in {"done", "failed"}

\* the for loop has gone through every listed file
LoopDone == input_files # <<>> /\ pc \in {"write", "summary", "done", "failed"}

AllPutsOk == \A n \in DOMAIN put_log : put_log[n].ok

\* what reading, parsing and filtering the i-th listed file gives, with the
\* clock as it was when the loop came to it
FileResult(i) ==
    ProcessOne(bucket[input_files[i]].object, file_log[i].now, file_log[i].k)

InSeq(x, seq) == \E n \in DOMAIN seq : seq[n] = x

\* C6: when reading or parsing one file fails, that file is skipped without
\* retry and every other listed file is still read, parsed and filtered; the
\* qualifying facilities of the files that did not fail are in the aggregate
\* that is written; a file's failure never by itself makes the run fail.
C6_FileFailureIsolated ==
    /\ pc = "loop" => Len(file_log) = file_index - 1
    /\ (pc = "failed" /\ input_files # <<>>) => Len(file_log) = Len(input_files)
    /\ LoopDone =>
           /\ Len(file_log) = Len(input_files)
           /\ \A i \in DOMAIN file_log :
                  /\ file_log[i].key = input_files[i]
                  /\ file_log[i].raised = FileResult(i).raised
                  /\ ~file_log[i].raised =>
                         \A n \in DOMAIN FileResult(i).filtered :
                             /\ InSeq(FileResult(i).filtered[n], all_filtered_facilities)
                             /\ put_log # <<>> =>
                                    InSeq(FileResult(i).filtered[n], put_log[1].body.items)

\* a finished run whose first file failed and whose second file's qualifying
\* facilities were written
C6_Witness ==
    /\ pc = "done"
    /\ Len(input_files) = 2
    /\ file_log[1].raised /\ ~file_log[2].raised
    /\ all_filtered_facilities # <<>>
    /\ put_log[1].body.items = all_filtered_facilities

\* the single-element placeholder array
IsPlaceholder(body) ==
    /\ body.t = "list" /\ Len(body.items) = 1
    /\ DOMAIN body.items[1].d = {"message", "processing_date", "facilities"}
    /\ body.items[1].d.facilities = List(<<>>)

\* C7: in a run with at least one listed file, no qualifying facility and
\* every put succeeding, the placeholder no_expiring_facilities_<ts>.json is
\* the only object written and the run finishes normally, exit status 0.
C7_AsStated ==
    (Terminated /\ LoopDone /\ all_filtered_facilities = <<>> /\ AllPutsOk) =>
        /\ Len(put_log) = 1
        /\ put_log[1].key.name = "no_expiring_facilities"
        /\ IsPlaceholder(put_log[1].body)
        /\ pc = "done"
        /\ exit_status = 0

\* the summary matches the filtered payload
SummaryMatches(summary, payload) ==
    /\ summary.d.total_facilities_processed = Num(Len(payload.items))
    /\ Len(summary.d.facilities_summary.items) = Len(payload.items)
    /\ \A n \in DOMAIN payload.items :
           summary.d.facilities_summary.items[n].d.expiring_count =
               Num(Len(payload.items[n].d["_processing_metadata"].d
                           .expiring_accreditations.items))

\* C8: in a run with a non-empty aggregate and every put succeeding, exactly
\* two objects are written, expiring_facilities_<ts>.json and then
\* processing_summary_<ts>.json, the run finishes normally and the summary
\* matches the payload; no summary is ever written with an empty aggregate.
C8_AsStated ==
    /\ (Terminated /\ LoopDone /\ all_filtered_facilities # <<>> /\ AllPutsOk) =>
           /\ pc = "done"
           /\ exit_status = 0
           /\ Len(put_log) = 2
           /\ put_log[1].key.name = "expiring_facilities"
           /\ put_log[1].body = List(all_filtered_facilities)
           /\ put_log[2].key.name = "processing_summary"
           /\ SummaryMatches(put_log[2].body, put_log[1].body)
    /\ \A n \in DOMAIN put_log :
           put_log[n].key.name = "processing_summary" =>
               all_filtered_facilities # <<>>

\* C9: a failed put is terminal: the error reaches main, which exits non-zero;
\* the put is not retried and no put follows it.
C9_PutFailureTerminal ==
    /\ \A n \in DOMAIN put_log :
           ~put_log[n].ok =>
               /\ n = Len(put_log)
               /\ pc = "failed"
               /\ exit_status = 1
    /\ \A m, n \in DOMAIN put_log :
           m # n => put_log[m].key.name # put_log[n].key.name

\* the payload put failed and no summary put was issued
C9_Witness ==
    /\ pc = "failed" /\ exit_status = 1
    /\ Len(put_log) = 1
    /\ ~put_log[1].ok
    /\ put_log[1].key.name = "expiring_facilities"

RECURSIVE ConcatCompleted(_)
ConcatCompleted(i) ==
    IF i = 0 THEN <<>>
    ELSE ConcatCompleted(i - 1) \o
             (IF FileResult(i).raised THEN <<>> ELSE FileResult(i).filtered)

\* C10: the aggregate is the concatenation, in listing order, of the complete
\* filter output of every file whose read, parse and filter did not raise; a
\* file that raised contributes nothing, not even a prefix.
C10_AllOrNothing ==
    /\ all_filtered_facilities = ConcatCompleted(Len(file_log))
    /\ put_log # <<>> /\ all_filtered_facilities # <<>> =>
           put_log[1].body = List(ConcatCompleted(Len(input_files)))

\* a file whose filter raised after it had collected a facility, beside a
\* file that completed
C10_Witness ==
    /\ pc = "write"
    /\ Len(file_log) = 2
    /\ FileResult(1).raised /\ FileResult(1).filtered # <<>>
    /\ ~FileResult(2).raised /\ FileResult(2).filtered # <<>>
    /\ all_filtered_facilities = FileResult(2).filtered

====
